---- MODULE Spec2Model ----
(***************************************************************************)
(* State-machine model of the two OCCT/Qt viewer widgets:                  *)
(*   - OcctQOpenGLWidgetViewer (variant "GL"): Qt owns the GL context and  *)
(*     the framebuffer, the viewer wraps them;                             *)
(*   - OcctQWidgetViewer (variant "QW"): Qt gives a native window only.    *)
(* One action per toolkit callback.  The host toolkit (native handle,      *)
(* widget size, device-pixel ratio) is part of the state; the results of   *)
(* calls into the renderer that the widget code branches on are inputs.    *)
(***************************************************************************)
EXTENDS Integers, Sequences, FiniteSets, TLC

\* ------------------------------------------------------------------ bounds
MaxHandle == 2   \* native handles the host may hand out: 1..MaxHandle
MaxInits  == 2   \* successful surface initialisations per session

Handles   == 1..MaxHandle
Ratios    == {1, 2}                        \* device-pixel ratios
Sizes     == {<<4, 3>>, <<800, 600>>}    \* logical widget sizes (width, height)
Positions == {<<3, 2>>}                   \* logical pointer positions
Modifiers == {{}, {"Shift", "Ctrl"}}         \* modifier keys held
QtKeys    == {"Key_Escape", "Key_F", "Key_A"}
Views     == {"main", "sub1", "sub2"}    \* "null" is the null handle

VARIABLES
  variant,          \* "GL" (QOpenGLWidget) or "QW" (QWidget); fixed per session
  phase,            \* "new" (not constructed), "alive", "destroyed"
  hostHandle,       \* winId(): the toolkit's current native handle
  hostSize,         \* the widget's logical size <<width, height>>
  ratio,            \* devicePixelRatioF()
  glInitCalled,     \* Qt has delivered initializeGL() at least once
  window,           \* the Aspect_NeutralWindow bound to myView (myView->Window())
  nbWindowAlloc,    \* Aspect_NeutralWindow objects allocated so far
  nbSetWindow,      \* myView->SetWindow() calls so far (each makes a GL context)
  defaultFbo,       \* the view's GL context has a default (wrapped) framebuffer
  nbFboAlloc,       \* OcctQtFrameBuffer objects allocated so far
  nbViewCube,       \* 1 when myViewCube is displayed in myContext
  nbBox,            \* AIS_Shape boxes displayed in myContext
  subviews,         \* myView->Subviews()
  subviewComposer,  \* myView composes sub-views (SetSubviewComposer)
  myFocusView,      \* "null", "main", "sub1" or "sub2"
  exitRequested,    \* QApplication::exit() has been called
  ev                \* what the last callback did (observation record)

hostVars    == <<hostHandle, hostSize, ratio>>
surfaceVars == <<window, nbWindowAlloc, nbSetWindow, defaultFbo, nbFboAlloc>>
sceneVars   == <<nbViewCube, nbBox>>
viewVars    == <<subviews, subviewComposer, myFocusView>>
vars == <<variant, phase, hostHandle, hostSize, ratio, glInitCalled, window,
          nbWindowAlloc, nbSetWindow, defaultFbo, nbFboAlloc, nbViewCube, nbBox,
          subviews, subviewComposer, myFocusView, exitRequested, ev>>

NoWindow == [exists |-> FALSE, virtual |-> FALSE, handle |-> 0, size |-> <<0, 0>>]

\* The observation record of a callback that did nothing observable.
NoEv == [op        |-> "none",
         reinit    |-> FALSE,    \* initializeGL() was run by this callback
         again     |-> FALSE,    \* ... right after a callback that ran it with success
         initFail  |-> FALSE,    \* OpenGl_Context::Init() failed
         wrapped   |-> FALSE,    \* the framebuffer wrap (InitWrapper) was attempted
         fboFail   |-> FALSE,    \* InitWrapper() failed
         marked    |-> {},       \* views given MustBeResized() + Invalidate()
         invImm    |-> "null",   \* view given InvalidateImmediate()
         drew      |-> "null",   \* view passed to FlushViewEvents(.., true)
         errors    |-> 0,        \* error dialogs shown
         exits     |-> <<>>,     \* QApplication::exit() codes, in call order
         updates   |-> 0,        \* update() requests
         askNext   |-> FALSE,    \* myToAskNextFrame after the redraw
         fwd       |-> "none",   \* renderer entry point called
         pos       |-> <<0, 0>>, \* position forwarded to the renderer
         changed   |-> FALSE,    \* what the renderer entry point returned
         passed    |-> FALSE,    \* handed to the base class's default handler
         key       |-> "none",
         mods      |-> {},
         picked    |-> "null",   \* PickSubview() result
         focusWas  |-> "null",   \* myFocusView when the callback started
         srgbWas   |-> <<FALSE, FALSE>>, \* context sRGB state before a bind
         srgb      |-> <<FALSE, FALSE>>, \* ... and after it
         steps     |-> <<>>]     \* destructor steps, in order

\* ------------------------------------------------------------ host toolkit
\* QWidget::rect(): QRect(0, 0, width, height); QRect::right() is
\* left + width - 1 and QRect::bottom() is top + height - 1.
rect == [left   |-> 0,
         top    |-> 0,
         right  |-> hostSize[1] - 1,
         bottom |-> hostSize[2] - 1]

\* OpenGl_FrameBuffer::GetVPSize() of the wrapped Qt framebuffer: QOpenGLWidget
\* keeps its framebuffer at size() * devicePixelRatio().
GetVPSize == <<hostSize[1] * ratio, hostSize[2] * ratio>>

\* ------------------------------------------------------- initializeGL (GL)
\* aViewSize of OcctQOpenGLWidgetViewer::initializeGL().
aViewSizeGL == <<(rect.right - rect.left) * ratio, (rect.bottom - rect.top) * ratio>>

\* aViewSize of OcctQWidgetViewer::initializeGL().
aViewSizeQW == <<rect.right - rect.left, rect.bottom - rect.top>>

\* Variant of SetupWindow that takes the else branch even when the view has
\* a window: a second Aspect_NeutralWindow is allocated.
SetupWindow_AlwaysNew(aNativeWin, aViewSize) ==
  /\ window' = [exists |-> TRUE, virtual |-> TRUE,
                handle |-> aNativeWin, size |-> aViewSize]
  /\ nbWindowAlloc' = nbWindowAlloc + 1
  /\ nbViewCube' = nbViewCube + 1

\* Variant of SetupWindow that displays the view cube in both branches.
SetupWindow_CubeOnRebind(aNativeWin, aViewSize) ==
  /\ window' = [exists |-> TRUE, virtual |-> TRUE,
                handle |-> aNativeWin, size |-> aViewSize]
  /\ nbWindowAlloc' = IF window.exists THEN nbWindowAlloc ELSE nbWindowAlloc + 1
  /\ nbViewCube' = nbViewCube + 1

\* Variant of SetupWindow that does not give the new native handle to a
\* window it binds again.
SetupWindow_KeepsHandle(aNativeWin, aViewSize) ==
  IF window.exists
  THEN /\ window' = [window EXCEPT !.size = aViewSize]
       /\ UNCHANGED <<nbWindowAlloc, nbViewCube>>
  ELSE /\ window' = [exists |-> TRUE, virtual |-> TRUE,
                     handle |-> aNativeWin, size |-> aViewSize]
       /\ nbWindowAlloc' = nbWindowAlloc + 1
       /\ nbViewCube' = nbViewCube + 1

\* The if/else on myView->Window(): an existing Aspect_NeutralWindow is
\* updated and bound again; otherwise one is allocated and made virtual.
SetupWindow(aNativeWin, aViewSize) ==
  IF window.exists
  THEN /\ window' = [window EXCEPT !.handle = aNativeWin, !.size = aViewSize]
       /\ UNCHANGED <<nbWindowAlloc, nbViewCube>>
  ELSE /\ window' = [exists |-> TRUE, virtual |-> TRUE,
                     handle |-> aNativeWin, size |-> aViewSize]
       /\ nbWindowAlloc' = nbWindowAlloc + 1
       /\ nbViewCube' = nbViewCube + 1

\* myView->SetWindow(aWindow, ..): the renderer builds a new render window
\* with a GL context object of its own, so the context the view reports
\* afterwards (OcctGlTools::GetGlContext(myView)) has no default framebuffer.
SetWindow ==
  /\ nbSetWindow' = nbSetWindow + 1
  /\ defaultFbo' = FALSE

\* The "dummy shape for testing" block: a new AIS_Shape is displayed.
DisplayBox == nbBox' = nbBox + 1

\* Observation only: the callback before this one ran initializeGL() to its end.
RanInitBefore == ev.reinit /\ ~ev.initFail

\* Variant of initializeGL without the return in the failure branch: the
\* failure is reported and the surface is set up all the same.
initializeGL_NoReturn(ctxOk, e) ==
  /\ nbSetWindow < MaxInits
  /\ SetupWindow(hostHandle, aViewSizeGL)
  /\ SetWindow
  /\ DisplayBox
  /\ ev' = IF ctxOk
           THEN [e EXCEPT !.reinit = TRUE, !.again = RanInitBefore]
           ELSE [e EXCEPT !.reinit = TRUE, !.again = RanInitBefore,
                          !.initFail = TRUE,
                          !.errors = @ + 1, !.exits = Append(@, 1)]
  /\ exitRequested' = (exitRequested \/ ~ctxOk)
  /\ UNCHANGED nbFboAlloc

\* OcctQOpenGLWidgetViewer::initializeGL(); ctxOk is what
\* OpenGl_Context::Init() returns, e the observation record so far.
initializeGL(ctxOk, e) ==
  IF ~ctxOk
  THEN /\ ev' = [e EXCEPT !.reinit = TRUE, !.again = RanInitBefore,
                          !.initFail = TRUE,
                          !.errors = @ + 1, !.exits = Append(@, 1)]
       /\ exitRequested' = TRUE
       /\ UNCHANGED <<surfaceVars, sceneVars>>
  ELSE /\ nbSetWindow < MaxInits
       /\ SetupWindow(hostHandle, aViewSizeGL)
       /\ SetWindow
       /\ DisplayBox
       /\ ev' = [e EXCEPT !.reinit = TRUE, !.again = RanInitBefore]
       /\ UNCHANGED <<nbFboAlloc, exitRequested>>

\* Variant of initializeGL_QW that shows an error dialog when it finds a
\* window to bind again.
initializeGL_QW_ReportsRerun(e) ==
  /\ nbSetWindow < MaxInits
  /\ SetupWindow(hostHandle, aViewSizeQW)
  /\ SetWindow
  /\ DisplayBox
  /\ ev' = [e EXCEPT !.reinit = TRUE, !.again = RanInitBefore,
                     !.errors = IF window.exists THEN @ + 1 ELSE @]
  /\ UNCHANGED <<nbFboAlloc, exitRequested>>

\* OcctQWidgetViewer::initializeGL().
initializeGL_QW(e) ==
  /\ nbSetWindow < MaxInits
  /\ SetupWindow(hostHandle, aViewSizeQW)
  /\ SetWindow
  /\ DisplayBox
  /\ ev' = [e EXCEPT !.reinit = TRUE, !.again = RanInitBefore]
  /\ UNCHANGED <<nbFboAlloc, exitRequested>>

\* --------------------------------------------------------------- lifecycle
\* Variant of ConstructGL that ends with a call of initializeGL().
ConstructGL_Inits ==
  /\ phase = "new" /\ variant = "GL"
  /\ phase' = "alive"
  /\ initializeGL(TRUE, [NoEv EXCEPT !.op = "construct"])
  /\ UNCHANGED <<variant, hostVars, glInitCalled, viewVars>>

\* OcctQOpenGLWidgetViewer::OcctQOpenGLWidgetViewer(): viewer, context,
\* view cube and view are created; no window is created.
ConstructGL ==
  /\ phase = "new" /\ variant = "GL"
  /\ phase' = "alive"
  /\ ev' = [NoEv EXCEPT !.op = "construct"]
  /\ UNCHANGED <<variant, hostVars, glInitCalled, surfaceVars, sceneVars,
                 viewVars, exitRequested>>

\* OcctQWidgetViewer::OcctQWidgetViewer(): as above, then initializeGL().
ConstructQW ==
  /\ phase = "new" /\ variant = "QW"
  /\ phase' = "alive"
  /\ initializeGL_QW([NoEv EXCEPT !.op = "construct"])
  /\ UNCHANGED <<variant, hostVars, glInitCalled, viewVars>>

\* Qt delivers QOpenGLWidget::initializeGL(): before the first paintGL() and
\* again whenever it has made a new GL context for the widget, which it does
\* not do once the application has been told to exit.
InitializeGL ==
  /\ phase = "alive" /\ variant = "GL" /\ ~exitRequested
  /\ \E ctxOk \in BOOLEAN : initializeGL(ctxOk, [NoEv EXCEPT !.op = "init"])
  /\ glInitCalled' = TRUE
  /\ UNCHANGED <<variant, phase, hostVars, viewVars>>

\* ------------------------------------------------------------ host changes
Resize ==
  /\ phase = "alive"
  /\ \E s \in Sizes \ {hostSize} : hostSize' = s
  /\ ev' = [NoEv EXCEPT !.op = "resize"]
  /\ UNCHANGED <<variant, phase, hostHandle, ratio, glInitCalled, surfaceVars,
                 sceneVars, viewVars, exitRequested>>

ChangeRatio ==
  /\ phase = "alive"
  /\ \E r \in Ratios \ {ratio} : ratio' = r
  /\ ev' = [NoEv EXCEPT !.op = "ratio"]
  /\ UNCHANGED <<variant, phase, hostHandle, hostSize, glInitCalled, surfaceVars,
                 sceneVars, viewVars, exitRequested>>

ChangeHandle ==
  /\ phase = "alive"
  /\ \E h \in Handles \ {hostHandle} : hostHandle' = h
  /\ ev' = [NoEv EXCEPT !.op = "handle"]
  /\ UNCHANGED <<variant, phase, hostSize, ratio, glInitCalled, surfaceVars,
                 sceneVars, viewVars, exitRequested>>

\* ------------------------------------------------------------------ paint
\* Variant of HandleChanged that never sees a change.
HandleChanged_Never == FALSE

\* The handle guard of paintGL()/paintEvent(): the window's recorded native
\* handle against the toolkit's current winId().
HandleChanged == window.handle # hostHandle

\* Variant of WrapDefaultFbo that allocates a framebuffer on every paint.
WrapDefaultFbo_AlwaysNew ==
  /\ defaultFbo' = TRUE
  /\ nbFboAlloc' = nbFboAlloc + 1

\* "wrap FBO created by QOpenGLWidget": the context's default framebuffer is
\* used when there is one; otherwise an OcctQtFrameBuffer is allocated and
\* set as the context's default framebuffer.
WrapDefaultFbo ==
  /\ defaultFbo' = TRUE
  /\ nbFboAlloc' = IF defaultFbo THEN nbFboAlloc ELSE nbFboAlloc + 1

\* Variant of MarkedViews that leaves the sub-views out.
MarkedViews_MainOnly(aViewSizeNew) ==
  IF aViewSizeNew # window.size THEN {"main"} ELSE {}

\* The size comparison: views marked MustBeResized() + Invalidate() when the
\* new size differs from the window's recorded size.
MarkedViews(aViewSizeNew) ==
  IF aViewSizeNew # window.size THEN {"main"} \cup subviews ELSE {}

\* aWindow->SetSize(aViewSizeNew) under the same comparison.
SyncWindowSize(aViewSizeNew) ==
  window' = IF aViewSizeNew # window.size
            THEN [window EXCEPT !.size = aViewSizeNew]
            ELSE window

\* Variant of FocusOrMain that always takes myView.
FocusOrMain_AlwaysMain == "main"

\* aView of paintGL()/paintEvent(): the focus view if set, else myView.
FocusOrMain == IF myFocusView # "null" THEN myFocusView ELSE "main"

\* Variant of FlushAndRedraw whose handleViewRedraw() asks for another frame
\* whatever the pending-frame flag says.
FlushAndRedraw_AlwaysAsks(e, marked, askNext) ==
  ev' = [e EXCEPT !.marked = marked,
                  !.invImm = FocusOrMain,
                  !.drew = FocusOrMain,
                  !.again = RanInitBefore,
                  !.askNext = askNext,
                  !.updates = @ + 1]

\* InvalidateImmediate() + FlushViewEvents(myContext, aView, true), followed
\* by handleViewRedraw(): the controller leaves its pending-frame flag as
\* askNext and another update() is requested when it is up.
FlushAndRedraw(e, marked, askNext) ==
  ev' = [e EXCEPT !.marked = marked,
                  !.invImm = FocusOrMain,
                  !.drew = FocusOrMain,
                  !.again = RanInitBefore,
                  !.askNext = askNext,
                  !.updates = IF askNext THEN @ + 1 ELSE @]

\* Variant of FboWrapperFailed without the return: the failure is reported
\* and the frame is drawn all the same.
FboWrapperFailed_NoReturn(e) ==
  /\ ev' = [e EXCEPT !.fboFail = TRUE, !.errors = @ + 1, !.exits = Append(@, 1),
                     !.invImm = FocusOrMain, !.drew = FocusOrMain]
  /\ exitRequested' = TRUE

\* The failure branch of InitWrapper(): message, dialog, exit(1), return.
FboWrapperFailed(e) ==
  /\ ev' = [e EXCEPT !.fboFail = TRUE, !.errors = @ + 1, !.exits = Append(@, 1)]
  /\ exitRequested' = TRUE

\* Variant of paintGL without the guard on the view's window.
paintGL_NoGuard(ctxOk, fboOk, askNext) ==
  LET e == [NoEv EXCEPT !.op = "paint"] IN
  IF HandleChanged
  THEN /\ initializeGL(ctxOk, e)
  ELSE /\ WrapDefaultFbo
       /\ IF ~fboOk
          THEN /\ FboWrapperFailed([e EXCEPT !.wrapped = TRUE])
               /\ UNCHANGED window
          ELSE /\ SyncWindowSize(GetVPSize)
               /\ FlushAndRedraw([e EXCEPT !.wrapped = TRUE],
                                 MarkedViews(GetVPSize), askNext)
               /\ UNCHANGED exitRequested
       /\ UNCHANGED <<nbWindowAlloc, nbSetWindow, sceneVars>>

\* OcctQOpenGLWidgetViewer::paintGL(). ctxOk: OpenGl_Context::Init() result of
\* a rerun initializeGL(); fboOk: InitWrapper() result; askNext: the
\* pending-frame flag after the redraw.
paintGL(ctxOk, fboOk, askNext) ==
  LET e == [NoEv EXCEPT !.op = "paint"] IN
  IF ~window.exists
  THEN /\ ev' = e
       /\ UNCHANGED <<surfaceVars, sceneVars, exitRequested>>
  ELSE IF HandleChanged
  THEN /\ initializeGL(ctxOk, e)
  ELSE /\ WrapDefaultFbo
       /\ IF ~fboOk
          THEN /\ FboWrapperFailed([e EXCEPT !.wrapped = TRUE])
               /\ UNCHANGED window
          ELSE /\ SyncWindowSize(GetVPSize)
               /\ FlushAndRedraw([e EXCEPT !.wrapped = TRUE],
                                 MarkedViews(GetVPSize), askNext)
               /\ UNCHANGED exitRequested
       /\ UNCHANGED <<nbWindowAlloc, nbSetWindow, sceneVars>>

\* aViewSizeNew of OcctQWidgetViewer::paintEvent().
aViewSizeNewQW == <<rect.right - rect.left, rect.bottom - rect.top>>

\* OcctQWidgetViewer::paintEvent().
paintEvent(askNext) ==
  LET e == [NoEv EXCEPT !.op = "paint"] IN
  IF ~window.exists
  THEN /\ ev' = e
       /\ UNCHANGED <<surfaceVars, sceneVars, exitRequested>>
  ELSE IF HandleChanged
  THEN /\ initializeGL_QW(e)
  ELSE /\ SyncWindowSize(aViewSizeNewQW)
       /\ FlushAndRedraw(e, MarkedViews(aViewSizeNewQW), askNext)
       /\ UNCHANGED <<nbWindowAlloc, nbSetWindow, defaultFbo, nbFboAlloc,
                      sceneVars, exitRequested>>

\* Qt delivers paintGL(); never before the first initializeGL().
PaintGL ==
  /\ phase = "alive" /\ variant = "GL" /\ glInitCalled
  /\ \E ctxOk, fboOk, askNext \in BOOLEAN : paintGL(ctxOk, fboOk, askNext)
  /\ UNCHANGED <<variant, phase, hostVars, glInitCalled, viewVars>>

\* Qt delivers paintEvent().
PaintEvent ==
  /\ phase = "alive" /\ variant = "QW"
  /\ \E askNext \in BOOLEAN : paintEvent(askNext)
  /\ UNCHANGED <<variant, phase, hostVars, glInitCalled, viewVars>>

\* ------------------------------------------------------- wrapped framebuffer
\* The sRGB state of an OpenGl_Context as the arguments of the last
\* SetFrameBufferSRGB(theIsFbo, theIsFboSRgb): the window's default, an
\* offscreen sRGB framebuffer bound by the renderer, or a linear framebuffer.
SRgbStates == {<<FALSE, TRUE>>, <<TRUE, TRUE>>, <<TRUE, FALSE>>}

SetFrameBufferSRGB(theIsFbo, theIsFboSRgb) == <<theIsFbo, theIsFboSRgb>>

\* OcctQtFrameBuffer::BindBuffer(): the base class binds, then the state is set.
BindBuffer(theSRgb) == SetFrameBufferSRGB(TRUE, FALSE)

\* Variant of BindDrawBuffer that only calls the base class.
BindDrawBuffer_BaseOnly(theSRgb) == theSRgb

\* OcctQtFrameBuffer::BindDrawBuffer(): as BindBuffer().
BindDrawBuffer(theSRgb) == SetFrameBufferSRGB(TRUE, FALSE)

\* OcctQtFrameBuffer::BindReadBuffer(): only the base class is called, which
\* binds the read target and leaves the sRGB state of the context alone.
BindReadBuffer(theSRgb) == theSRgb

FboBinds == {"BindBuffer", "BindDrawBuffer", "BindReadBuffer"}

\* The renderer calls one of the bind methods of the wrapped framebuffer
\* attached to the view's context, whatever sRGB state the context is in.
BindFbo ==
  /\ phase = "alive" /\ variant = "GL" /\ defaultFbo
  /\ \E theBind \in FboBinds, theSRgb \in SRgbStates :
       ev' = [NoEv EXCEPT !.op = "bind", !.fwd = theBind, !.srgbWas = theSRgb,
                          !.srgb = CASE theBind = "BindBuffer" -> BindBuffer(theSRgb)
                                     [] theBind = "BindDrawBuffer" -> BindDrawBuffer(theSRgb)
                                     [] OTHER -> BindReadBuffer(theSRgb)]
  /\ UNCHANGED <<variant, phase, hostVars, glInitCalled, surfaceVars, sceneVars,
                 viewVars, exitRequested>>

\* ------------------------------------------------------------------ input
\* OcctQtTools::qtKey2VKey(): the toolkit key code as the renderer's key.
qtKey2VKey(theKey) ==
  CASE theKey = "Key_Escape" -> "Aspect_VKey_Escape"
    [] theKey = "Key_F"      -> "Aspect_VKey_F"
    [] theKey = "Key_A"      -> "Aspect_VKey_A"
    [] OTHER                 -> "Aspect_VKey_UNKNOWN"

\* Variant of keyPressEvent without the return in the Escape case: control
\* falls through to the F case.
keyPressEvent_EscapeFallsThrough(theKey, theMods) ==
  LET aKey == qtKey2VKey(theKey)
      e    == [NoEv EXCEPT !.op = "key", !.key = theKey, !.mods = theMods]
  IN  CASE aKey = "Aspect_VKey_Escape" ->
             /\ ev' = [e EXCEPT !.exits = Append(@, 0),
                                !.fwd = "FitAll", !.updates = @ + 1]
             /\ exitRequested' = TRUE
        [] aKey = "Aspect_VKey_F" ->
             /\ ev' = [e EXCEPT !.fwd = "FitAll", !.updates = @ + 1]
             /\ UNCHANGED exitRequested
        [] OTHER ->
             /\ ev' = [e EXCEPT !.passed = TRUE]
             /\ UNCHANGED exitRequested

\* Variant of keyPressEvent whose FitAll() redraws at once.
keyPressEvent_FitAllRedraws(theKey, theMods) ==
  LET aKey == qtKey2VKey(theKey)
      e    == [NoEv EXCEPT !.op = "key", !.key = theKey, !.mods = theMods]
  IN  CASE aKey = "Aspect_VKey_Escape" ->
             /\ ev' = [e EXCEPT !.exits = Append(@, 0)]
             /\ exitRequested' = TRUE
        [] aKey = "Aspect_VKey_F" ->
             /\ ev' = [e EXCEPT !.fwd = "FitAll", !.updates = @ + 1, !.drew = "main"]
             /\ UNCHANGED exitRequested
        [] OTHER ->
             /\ ev' = [e EXCEPT !.passed = TRUE]
             /\ UNCHANGED exitRequested

\* keyPressEvent() of both widgets (the bodies are the same); myView is
\* not null while the widget is alive.
keyPressEvent(theKey, theMods) ==
  LET aKey == qtKey2VKey(theKey)
      e    == [NoEv EXCEPT !.op = "key", !.key = theKey, !.mods = theMods]
  IN  CASE aKey = "Aspect_VKey_Escape" ->
             /\ ev' = [e EXCEPT !.exits = Append(@, 0)]
             /\ exitRequested' = TRUE
        [] aKey = "Aspect_VKey_F" ->
             /\ ev' = [e EXCEPT !.fwd = "FitAll", !.updates = @ + 1]
             /\ UNCHANGED exitRequested
        [] OTHER ->
             /\ ev' = [e EXCEPT !.passed = TRUE]
             /\ UNCHANGED exitRequested

KeyPress ==
  /\ phase = "alive"
  /\ \E k \in QtKeys, m \in Modifiers : keyPressEvent(k, m)
  /\ UNCHANGED <<variant, phase, hostVars, glInitCalled, surfaceVars, sceneVars,
                 viewVars>>

\* aPnt / aNewPos / aPos of the QOpenGLWidget handlers: the event position
\* times devicePixelRatioF().
devicePos(thePos) == <<thePos[1] * ratio, thePos[2] * ratio>>

\* aPnt / aNewPos / aPos of the QWidget handlers: the event position as is.
widgetPos(thePos) == thePos

aPnt(thePos) == IF variant = "GL" THEN devicePos(thePos) ELSE widgetPos(thePos)

\* Variant of ForwardPointer that calls updateView() whatever the renderer
\* returns.
ForwardPointer_AlwaysUpdates(theOp, theEntry, thePos, theChanged) ==
  ev' = [NoEv EXCEPT !.op = theOp, !.passed = TRUE, !.fwd = theEntry,
                     !.pos = aPnt(thePos),
                     !.changed = theChanged,
                     !.updates = @ + 1]

\* The tail shared by the pointer handlers: the base class handler has run,
\* the renderer entry point theEntry is called with the position and returns
\* theChanged; updateView() when it does.
ForwardPointer(theOp, theEntry, thePos, theChanged) ==
  ev' = [NoEv EXCEPT !.op = theOp, !.passed = TRUE, !.fwd = theEntry,
                     !.pos = aPnt(thePos),
                     !.changed = theChanged,
                     !.updates = IF theChanged THEN @ + 1 ELSE @]

mousePressEvent(thePos, theChanged) ==
  ForwardPointer("press", "UpdateMouseButtons", thePos, theChanged)

mouseReleaseEvent(thePos, theChanged) ==
  ForwardPointer("release", "UpdateMouseButtons", thePos, theChanged)

mouseMoveEvent(thePos, theChanged) ==
  ForwardPointer("move", "UpdateMousePosition", thePos, theChanged)

MousePress ==
  /\ phase = "alive"
  /\ \E p \in Positions, c \in BOOLEAN : mousePressEvent(p, c)
  /\ UNCHANGED <<variant, phase, hostVars, glInitCalled, surfaceVars, sceneVars,
                 viewVars, exitRequested>>

MouseRelease ==
  /\ phase = "alive"
  /\ \E p \in Positions, c \in BOOLEAN : mouseReleaseEvent(p, c)
  /\ UNCHANGED <<variant, phase, hostVars, glInitCalled, surfaceVars, sceneVars,
                 viewVars, exitRequested>>

MouseMove ==
  /\ phase = "alive"
  /\ \E p \in Positions, c \in BOOLEAN : mouseMoveEvent(p, c)
  /\ UNCHANGED <<variant, phase, hostVars, glInitCalled, surfaceVars, sceneVars,
                 viewVars, exitRequested>>

\* What myView->PickSubview(aPos) can return: a null handle (outside the
\* window), one of the sub-views, or myView itself.
PickResults == {"null", "main"} \cup subviews

\* Variant of SwitchesFocus without the comparison against the focus view.
SwitchesFocus_AnyPicked(aPickedView) ==
  /\ subviews # {}
  /\ aPickedView # "null"

\* The focus test of wheelEvent(): sub-views exist and the picked view is
\* neither null nor the focus view.
SwitchesFocus(aPickedView) ==
  /\ subviews # {}
  /\ aPickedView # "null"
  /\ aPickedView # myFocusView

\* Variant of OnSubviewChanged that drops the new view.
OnSubviewChanged_Ignored(theNewView) == UNCHANGED myFocusView

\* OnSubviewChanged(): the new view becomes the focus view.
OnSubviewChanged(theNewView) == myFocusView' = theNewView

\* wheelEvent() of both widgets. aPickedView is what PickSubview() returns
\* (read only when sub-views exist), theChanged what UpdateZoom() returns.
wheelEvent(thePos, aPickedView, theChanged) ==
  LET e == [NoEv EXCEPT !.op = "wheel", !.passed = TRUE, !.pos = aPnt(thePos),
                        !.focusWas = myFocusView,
                        !.picked = IF subviews # {} THEN aPickedView ELSE "null"]
  IN  IF SwitchesFocus(aPickedView)
      THEN /\ OnSubviewChanged(aPickedView)
           /\ ev' = [e EXCEPT !.updates = @ + 1]
      ELSE /\ ev' = [e EXCEPT !.fwd = "UpdateZoom", !.changed = theChanged,
                              !.updates = IF theChanged THEN @ + 1 ELSE @]
           /\ UNCHANGED myFocusView

Wheel ==
  /\ phase = "alive"
  /\ \E p \in Positions, v \in PickResults, c \in BOOLEAN : wheelEvent(p, v, c)
  /\ UNCHANGED <<variant, phase, hostVars, glInitCalled, surfaceVars, sceneVars,
                 subviews, subviewComposer, exitRequested>>

\* ------------------------------------------------------------- split views
\* Variant of splitSubviews that leaves the focus alone when it splits.
splitSubviews_KeepsFocus ==
  /\ IF subviews # {}
     THEN /\ subviewComposer' = FALSE
          /\ subviews' = {}
          /\ OnSubviewChanged("main")
     ELSE /\ subviewComposer' = TRUE
          /\ subviews' = {"sub1", "sub2"}
          /\ UNCHANGED myFocusView
  /\ ev' = [NoEv EXCEPT !.op = "split", !.focusWas = myFocusView, !.updates = @ + 1]

\* Variant of splitSubviews that leaves the sub-view composer on when it
\* removes the sub-views.
splitSubviews_ComposerStaysOn ==
  /\ IF subviews # {}
     THEN /\ subviewComposer' = TRUE
          /\ subviews' = {}
          /\ OnSubviewChanged("main")
     ELSE /\ subviewComposer' = TRUE
          /\ subviews' = {"sub1", "sub2"}
          /\ OnSubviewChanged("sub1")
  /\ ev' = [NoEv EXCEPT !.op = "split", !.focusWas = myFocusView, !.updates = @ + 1]

\* Variant of splitSubviews that leaves the focus alone when it removes the
\* sub-views.
splitSubviews_UnsplitKeepsFocus ==
  /\ IF subviews # {}
     THEN /\ subviewComposer' = FALSE
          /\ subviews' = {}
          /\ UNCHANGED myFocusView
     ELSE /\ subviewComposer' = TRUE
          /\ subviews' = {"sub1", "sub2"}
          /\ OnSubviewChanged("sub1")
  /\ ev' = [NoEv EXCEPT !.op = "split", !.focusWas = myFocusView, !.updates = @ + 1]

\* MyMainWindow::splitSubviews(): with sub-views, they are removed and the
\* focus goes to myView; without, two sub-views are made on myView's window
\* and the focus goes to the first.
splitSubviews ==
  /\ IF subviews # {}
     THEN /\ subviewComposer' = FALSE
          /\ subviews' = {}
          /\ OnSubviewChanged("main")
     ELSE /\ subviewComposer' = TRUE
          /\ subviews' = {"sub1", "sub2"}
          /\ OnSubviewChanged("sub1")
  /\ ev' = [NoEv EXCEPT !.op = "split", !.focusWas = myFocusView, !.updates = @ + 1]

\* The "Split Views" menu action; a sub-view is set on the window of myView,
\* so the window must exist.
SplitSubviews ==
  /\ phase = "alive" /\ window.exists
  /\ splitSubviews
  /\ UNCHANGED <<variant, phase, hostVars, glInitCalled, surfaceVars, sceneVars,
                 exitRequested>>

\* ---------------------------------------------------------------- teardown
\* Variant of destructorStepsGL that releases the display connection before
\* makeCurrent().
destructorStepsGL_DispFirst ==
  <<"aDisp = GetDisplayConnection", "myContext->RemoveAll(false)",
    "myContext.Nullify", "myView->Remove", "myView.Nullify", "myViewer.Nullify",
    "aDisp.Nullify", "makeCurrent">>

\* ~OcctQOpenGLWidgetViewer(): the statements in order, aDisp held throughout.
destructorStepsGL ==
  <<"aDisp = GetDisplayConnection", "myContext->RemoveAll(false)",
    "myContext.Nullify", "myView->Remove", "myView.Nullify", "myViewer.Nullify",
    "makeCurrent", "aDisp.Nullify">>

\* ~OcctQWidgetViewer(): the statements in order.
destructorStepsQW ==
  <<"aDisp = GetDisplayConnection", "myContext->RemoveAll(false)",
    "myContext.Nullify", "myView->Remove", "myView.Nullify", "myViewer.Nullify",
    "aDisp.Nullify">>

\* The state a destructor leaves: nothing displayed, no window, no context.
Released(theSteps) ==
  /\ phase' = "destroyed"
  /\ nbViewCube' = 0
  /\ nbBox' = 0
  /\ window' = NoWindow
  /\ defaultFbo' = FALSE
  /\ ev' = [NoEv EXCEPT !.op = "destroy", !.steps = theSteps]
  /\ UNCHANGED <<variant, hostVars, glInitCalled, nbWindowAlloc, nbSetWindow,
                 nbFboAlloc, viewVars, exitRequested>>

DestroyGL == phase = "alive" /\ variant = "GL" /\ Released(destructorStepsGL)

DestroyQW == phase = "alive" /\ variant = "QW" /\ Released(destructorStepsQW)

\* ------------------------------------------------------------------- model
Init ==
  /\ variant \in {"GL", "QW"}
  /\ phase = "new"
  /\ hostHandle \in Handles
  /\ hostSize \in Sizes
  /\ ratio \in Ratios
  /\ glInitCalled = FALSE
  /\ window = NoWindow
  /\ nbWindowAlloc = 0
  /\ nbSetWindow = 0
  /\ defaultFbo = FALSE
  /\ nbFboAlloc = 0
  /\ nbViewCube = 0
  /\ nbBox = 0
  /\ subviews = {}
  /\ subviewComposer = FALSE
  /\ myFocusView = "null"
  /\ exitRequested = FALSE
  /\ ev = NoEv

Next ==
  \/ ConstructGL
  \/ ConstructQW
  \/ InitializeGL
  \/ PaintGL
  \/ PaintEvent
  \/ KeyPress
  \/ MousePress
  \/ MouseRelease
  \/ MouseMove
  \/ Wheel
  \/ SplitSubviews
  \/ BindFbo
  \/ DestroyGL
  \/ DestroyQW
  \/ Resize
  \/ ChangeRatio
  \/ ChangeHandle

Spec == Init /\ [][Next]_vars

\* ------------------------------------------------------------------ claims
\* The host's actual pixel size: the widget's size times the device-pixel ratio.
HostPixelSize == <<hostSize[1] * ratio, hostSize[2] * ratio>>

\* The callback recorded in e made no part of a frame: no framebuffer wrap,
\* no view marked or invalidated, no FlushViewEvents().
NoFrame(e) ==
  /\ ~e.wrapped
  /\ e.marked = {}
  /\ e.invImm = "null"
  /\ e.drew = "null"

\* C1: whenever a paint callback reaches the draw step, the window's recorded
\* native handle is the toolkit's current one and its recorded size is the
\* host's device-pixel-scaled size (both variants).
C1_DrawSeesHostSurface ==
  (ev.op = "paint" /\ ev.drew # "null")
    => (window.handle = hostHandle /\ window.size = HostPixelSize)

\* C2: after every paint callback with a bound surface, the recorded size is
\* the widget's width and height times the device-pixel ratio (both variants,
\* the handle-mismatch branch included).
C2_SizeSyncedAfterPaint ==
  (ev.op = "paint" /\ window.exists) => window.size = HostPixelSize

\* C3 as stated: a paint callback that finds the recorded handle different
\* from the toolkit's leaves the recorded handle equal to the toolkit's and
\* makes no part of a frame.
C3_Original ==
  [][(ev'.op = "paint" /\ window.exists /\ window.handle # hostHandle)
       => (window'.handle = hostHandle /\ NoFrame(ev'))]_vars

\* C3 as amended: such a paint callback reruns initializeGL() and makes no
\* part of a frame; the recorded handle becomes the toolkit's unless wrapping
\* the GL context fails (QOpenGLWidget variant only), and then the window is
\* left as it was, one error is shown and exit(1) is requested.
C3_HandleChangeReinitsNoDraw ==
  [][(ev'.op = "paint" /\ window.exists /\ window.handle # hostHandle)
       => /\ ev'.reinit
          /\ NoFrame(ev')
          /\ IF ev'.initFail
             THEN /\ variant = "GL"
                  /\ window' = window
                  /\ ev'.errors = 1
                  /\ ev'.exits = <<1>>
             ELSE /\ window'.handle = hostHandle
                  /\ ev'.errors = 0
                  /\ ev'.exits = <<>>]_vars

\* A paint callback has rerun initializeGL() on a session that was
\* initialised before, and the recorded handle is the toolkit's again.
C3_Witness ==
  /\ ev.op = "paint"
  /\ ev.reinit
  /\ ~ev.initFail
  /\ nbSetWindow = 2
  /\ window.handle = hostHandle

\* C4 as stated: initializeGL() run twice in a row with the same handle
\* leaves exactly one surface object, still virtual, and exactly one wrapped
\* framebuffer.
C4_Original ==
  [][(RanInitBefore /\ window.handle = hostHandle /\ ev'.reinit /\ ~ev'.initFail)
       => /\ nbWindowAlloc' = 1
          /\ window'.virtual
          /\ (IF defaultFbo' THEN 1 ELSE 0) = 1]_vars

\* C4 as amended: initializeGL() run right after a run that succeeded with
\* the same handle allocates neither a surface object nor a wrapped
\* framebuffer: the one surface object is kept, stays virtual and, when the
\* rerun succeeds, is bound again with the same handle.
C4_ReinitReusesSurface ==
  [][(RanInitBefore /\ window.handle = hostHandle /\ ev'.reinit)
       => /\ nbWindowAlloc = 1
          /\ nbWindowAlloc' = 1
          /\ window'.exists
          /\ window'.virtual
          /\ window'.handle = hostHandle
          /\ nbFboAlloc' = nbFboAlloc
          /\ (~ev'.initFail => nbSetWindow' = nbSetWindow + 1)]_vars

\* initializeGL() has succeeded twice in a row with the same handle.
C4_Witness ==
  /\ ev.reinit
  /\ ev.again
  /\ ~ev.initFail
  /\ nbSetWindow = 2
  /\ nbWindowAlloc = 1
  /\ window.handle = hostHandle

\* C5 as stated: at most one wrapped framebuffer is ever allocated per
\* session.
C5_Original == nbFboAlloc <= 1

\* C5 as amended: a paint callback allocates a wrapped framebuffer only when
\* the view's GL context has none, which is the case once after each
\* successful surface initialisation; a paint that finds one attached
\* reuses it, also after its wrapper initialisation failed.
C5_OneFboPerContext ==
  [][ev'.op = "paint"
       => /\ (defaultFbo => nbFboAlloc' = nbFboAlloc)
          /\ nbFboAlloc' <= nbFboAlloc + 1
          /\ nbFboAlloc' <= nbSetWindow'
          /\ (ev'.wrapped => defaultFbo')]_vars

\* A paint after a handle-change rerun of initializeGL() has drawn a frame
\* into the second wrapped framebuffer of the session.
C5_Witness ==
  /\ ev.op = "paint"
  /\ ev.wrapped
  /\ ev.drew # "null"
  /\ defaultFbo
  /\ nbSetWindow = 2
  /\ nbFboAlloc = 2

\* C6: the focus is no view, the primary view or one existing sub-view, and
\* a wheel event picked as the focus view leaves the focus alone and is
\* forwarded as a zoom.
C6_FocusInvariant ==
  /\ myFocusView \in {"null", "main"} \cup subviews
  /\ (ev.op = "wheel" /\ ev.picked # "null" /\ ev.picked = ev.focusWas)
       => (myFocusView = ev.focusWas /\ ev.fwd = "UpdateZoom")

\* A wheel event inside the focused second sub-view was forwarded as a zoom.
C6_Witness ==
  /\ ev.op = "wheel"
  /\ ev.picked = "sub2"
  /\ ev.focusWas = "sub2"
  /\ myFocusView = "sub2"
  /\ ev.fwd = "UpdateZoom"

\* C7: a wheel event picked as a sub-view other than the focus view makes
\* that sub-view the focus view, forwards no zoom and requests one repaint.
C7_WheelSwitchesFocus ==
  (ev.op = "wheel" /\ ev.picked \in subviews /\ ev.picked # ev.focusWas)
    => /\ myFocusView = ev.picked
       /\ ev.fwd = "none"
       /\ ~ev.changed
       /\ ev.updates = 1

\* A wheel event inside the second sub-view while the first had the focus.
C7_Witness ==
  /\ ev.op = "wheel"
  /\ ev.focusWas = "sub1"
  /\ ev.picked = "sub2"
  /\ myFocusView = "sub2"
  /\ ev.updates = 1

\* C8: the first surface initialisation on an 800x600 widget at ratio 1
\* leaves a virtual window with the toolkit's handle and size (800, 600),
\* one box and the view cube displayed.
C8_FirstInit800x600 ==
  (ev.reinit /\ ~ev.initFail /\ nbSetWindow = 1
     /\ hostSize = <<800, 600>> /\ ratio = 1)
    => /\ window.exists
       /\ window.virtual
       /\ window.handle = hostHandle
       /\ window.size = <<800, 600>>
       /\ nbBox = 1
       /\ nbViewCube = 1

\* C9: a key press of Escape calls QApplication::exit() once, whatever the
\* modifiers, calls nothing of the renderer, requests no repaint and is not
\* handed to the base class.
C9_EscapeExitsOnce ==
  (ev.op = "key" /\ ev.key = "Key_Escape")
    => /\ Len(ev.exits) = 1
       /\ exitRequested
       /\ ev.fwd = "none"
       /\ ev.updates = 0
       /\ ~ev.passed

\* Escape was pressed with modifier keys held.
C9_Witness ==
  /\ ev.op = "key"
  /\ ev.key = "Key_Escape"
  /\ ev.mods = {"Shift", "Ctrl"}
  /\ ev.exits = <<0>>

\* C10: a failed wrap of the GL context in initializeGL() shows one error,
\* requests exit(1) and changes nothing of the session; while no surface
\* initialisation has succeeded a paint callback does nothing, and after a
\* failed first initialisation none succeeds any more.
C10_CtxInitFailureIsFatal ==
  [][/\ ev'.initFail
          => /\ UNCHANGED <<surfaceVars, sceneVars, viewVars>>
             /\ ev'.errors = 1
             /\ ev'.exits = <<1>>
             /\ exitRequested'
             /\ NoFrame(ev')
     /\ (ev'.op = "paint" /\ nbSetWindow = 0)
          => /\ ev' = [NoEv EXCEPT !.op = "paint"]
             /\ UNCHANGED <<surfaceVars, sceneVars, viewVars, exitRequested>>
     /\ (glInitCalled /\ nbSetWindow = 0) => nbSetWindow' = 0]_vars

\* A paint callback after the first initializeGL() failed.
C10_Witness ==
  /\ variant = "GL"
  /\ ev.op = "paint"
  /\ glInitCalled
  /\ exitRequested
  /\ nbSetWindow = 0
  /\ ~window.exists
\* C11: a paint callback in which InitWrapper() of the wrapped framebuffer
\* fails shows one error and requests exit(1); it leaves the window's
\* recorded size and handle alone, marks and invalidates no view, draws no
\* frame and requests no repaint.
C11_FboWrapFailureIsFatal ==
  [][ev'.fboFail
       => /\ ev'.op = "paint"
          /\ ev'.errors = 1
          /\ ev'.exits = <<1>>
          /\ exitRequested'
          /\ window' = window
          /\ ev'.marked = {}
          /\ ev'.invImm = "null"
          /\ ev'.drew = "null"
          /\ ev'.updates = 0]_vars

\* InitWrapper() failed in a paint that had a resize to take up, with
\* sub-views present.
C11_Witness ==
  /\ ev.op = "paint"
  /\ ev.fboFail
  /\ window.exists
  /\ window.size # GetVPSize
  /\ subviews # {}
  /\ exitRequested
\* C12 as stated: a paint callback that detects a changed native handle
\* reruns initializeGL() and neither shows an error nor requests exit.
C12_Original ==
  [][(ev'.op = "paint" /\ ev'.reinit)
       => /\ ev'.errors = 0
          /\ ev'.exits = <<>>
          /\ exitRequested' = exitRequested]_vars

\* C12 as amended: a paint callback runs initializeGL() exactly when it finds
\* the recorded handle changed; the rerun shows an error and requests exit
\* only when wrapping the GL context fails in it, which the QWidget variant
\* never does; otherwise the window is bound again silently.
C12_HandleDriftRecoverable ==
  [][ev'.op = "paint"
       => /\ ev'.reinit = (window.exists /\ window.handle # hostHandle)
          /\ ev'.initFail => (ev'.reinit /\ variant = "GL")
          /\ (ev'.reinit /\ ~ev'.initFail)
               => /\ ev'.errors = 0
                  /\ ev'.exits = <<>>
                  /\ exitRequested' = exitRequested
                  /\ nbSetWindow' = nbSetWindow + 1]_vars

\* A paint of the QOpenGLWidget variant has taken up a changed handle
\* silently: no error, no exit requested so far.
C12_Witness ==
  /\ variant = "GL"
  /\ ev.op = "paint"
  /\ ev.reinit
  /\ ~ev.initFail
  /\ ev.errors = 0
  /\ ~exitRequested
\* Position of statement x in the statement sequence s, 0 when absent.
StepAt(s, x) ==
  IF \E i \in 1..Len(s) : s[i] = x
  THEN CHOOSE i \in 1..Len(s) : s[i] = x
  ELSE 0

\* The order both destructors keep: the display connection is taken first
\* and released last; in between RemoveAll(false), then the context, the
\* view and the viewer are released in that order.
ReleaseOrder(s) ==
  /\ StepAt(s, "aDisp = GetDisplayConnection") = 1
  /\ StepAt(s, "myContext->RemoveAll(false)") = 2
  /\ StepAt(s, "myContext.Nullify") = 3
  /\ StepAt(s, "myView->Remove") = 4
  /\ StepAt(s, "myView.Nullify") = 5
  /\ StepAt(s, "myViewer.Nullify") = 6
  /\ StepAt(s, "aDisp.Nullify") = Len(s)

\* C13 as stated: in both variants the destructor removes the objects
\* without a redraw, releases context, view and viewer in that order, makes
\* the toolkit's GL context current and only then releases the display
\* connection, which it held throughout.
C13_Original ==
  ev.op = "destroy"
    => /\ ReleaseOrder(ev.steps)
       /\ StepAt(ev.steps, "makeCurrent") = Len(ev.steps) - 1
       /\ StepAt(ev.steps, "makeCurrent") > StepAt(ev.steps, "myViewer.Nullify")

\* C13 as amended: both destructors keep that order and release the display
\* connection last; the QOpenGLWidget variant makes the toolkit's GL context
\* current just before, the QWidget variant has no such step.
C13_TeardownOrder ==
  ev.op = "destroy"
    => /\ phase = "destroyed"
       /\ ReleaseOrder(ev.steps)
       /\ IF variant = "GL"
          THEN /\ Len(ev.steps) = 8
               /\ StepAt(ev.steps, "makeCurrent") = 7
          ELSE /\ Len(ev.steps) = 7
               /\ StepAt(ev.steps, "makeCurrent") = 0
       /\ nbBox = 0
       /\ nbViewCube = 0
       /\ ~window.exists

\* The QOpenGLWidget variant was destroyed after a surface was bound.
C13_Witness ==
  /\ variant = "GL"
  /\ ev.op = "destroy"
  /\ nbSetWindow > 0
  /\ StepAt(ev.steps, "makeCurrent") = 7
C15_Original ==
  [][myFocusView' # myFocusView
       => \/ /\ ev'.op = "wheel"
             /\ ev'.picked \in subviews
             /\ myFocusView' = ev'.picked
          \/ /\ ev'.op = "split"
             /\ subviews # {}
             /\ myFocusView' = "main"]_vars

\* C15 as amended: the focus view changes only by a wheel event, with
\* sub-views present, picked as a view other than the focus view (a sub-view
\* or the primary view), by an un-split, which makes the primary view the
\* focus view, or by a split, which makes the first new sub-view the focus
\* view; every split and un-split sets it so.
C15_FocusChanges ==
  [][/\ myFocusView' # myFocusView
          => \/ /\ ev'.op = "wheel"
                /\ subviews # {}
                /\ ev'.picked \in {"main"} \cup subviews
                /\ myFocusView' = ev'.picked
             \/ ev'.op = "split"
     /\ ev'.op = "split"
          => /\ myFocusView' = IF subviews # {} THEN "main" ELSE "sub1"
             /\ subviews' = IF subviews # {} THEN {} ELSE {"sub1", "sub2"}]_vars

\* A split has moved the focus from the primary view to the first sub-view.
C15_Witness ==
  /\ ev.op = "split"
  /\ ev.focusWas = "main"
  /\ myFocusView = "sub1"
  /\ subviews = {"sub1", "sub2"}
\* C16 as stated: each of the three bind methods of the wrapped framebuffer
\* leaves the context's sRGB state at (framebuffer, not sRGB), that is
\* SetFrameBufferSRGB(true, false).
C16_Original ==
  ev.op = "bind" => ev.srgb = <<TRUE, FALSE>>

\* C16 as amended: BindBuffer() and BindDrawBuffer() leave the context's
\* sRGB state at SetFrameBufferSRGB(true, false); BindReadBuffer() leaves it
\* as it found it.
C16_BindSetsLinear ==
  ev.op = "bind"
    => /\ ev.fwd \in FboBinds
       /\ ev.fwd \in {"BindBuffer", "BindDrawBuffer"} => ev.srgb = <<TRUE, FALSE>>
       /\ ev.fwd = "BindReadBuffer" => ev.srgb = ev.srgbWas

\* The framebuffer was bound as draw target on a context in the window's
\* default sRGB state.
C16_Witness ==
  /\ ev.op = "bind"
  /\ ev.fwd = "BindDrawBuffer"
  /\ ev.srgbWas = <<FALSE, TRUE>>
  /\ ev.srgb = <<TRUE, FALSE>>
\* C17: while the widget is alive and its surface was initialised, exactly
\* one box is displayed, however often initializeGL() was rerun.
C17_OneBox ==
  (phase = "alive" /\ window.exists) => nbBox = 1

\* C18: the view cube is displayed once, by the initializeGL() that creates
\* the window object; a rerun that finds the window displays none, and while
\* a window is bound exactly one view cube is displayed.
C18_ViewCubeOnce ==
  [][/\ nbViewCube' = (IF window'.exists THEN 1 ELSE 0)
     /\ (ev'.reinit /\ window.exists) => nbViewCube' = nbViewCube
     /\ (ev'.reinit /\ ~ev'.initFail /\ ~window.exists)
          => (nbViewCube = 0 /\ nbViewCube' = 1 /\ nbWindowAlloc' = 1)]_vars

\* initializeGL() has been rerun on an existing window and one view cube is
\* displayed.
C18_Witness ==
  /\ ev.reinit
  /\ ~ev.initFail
  /\ nbSetWindow = 2
  /\ nbWindowAlloc = 1
  /\ nbViewCube = 1
  /\ nbBox = 2
\* C19: a paint callback that finds no window bound to the view changes
\* nothing of the session (window, framebuffer, focus, sub-views, displayed
\* objects), draws nothing, shows no error and requests neither repaint nor
\* exit.
C19_PaintWithoutSurfaceIsNoOp ==
  [][(ev'.op = "paint" /\ ~window.exists)
       => /\ UNCHANGED <<window, defaultFbo, nbFboAlloc, nbWindowAlloc, nbSetWindow>>
          /\ UNCHANGED <<myFocusView, subviews, subviewComposer>>
          /\ UNCHANGED <<nbBox, nbViewCube, exitRequested>>
          /\ ~ev'.reinit
          /\ NoFrame(ev')
          /\ ev'.errors = 0
          /\ ev'.exits = <<>>
          /\ ev'.updates = 0]_vars

\* A paint callback has come while the view had no window.
C19_Witness ==
  /\ phase = "alive"
  /\ ev.op = "paint"
  /\ ~window.exists
  /\ nbBox = 0
  /\ ev.updates = 0

\* The size a paint callback reads from the host: the viewport size of the
\* wrapped framebuffer, or the extent of rect() in the QWidget variant.
PaintSize == IF variant = "GL" THEN GetVPSize ELSE aViewSizeNewQW

\* C20: a paint callback that reaches the draw records the size it read;
\* when that differs from the size recorded before, the primary view and
\* every sub-view were marked must-be-resized and invalidated; when it is
\* the same, the window is unchanged and no view was marked.
C20_SizeSyncMarksViews ==
  [][(ev'.op = "paint" /\ ev'.drew # "null")
       => /\ window'.size = PaintSize
          /\ window.size # PaintSize => ev'.marked = {"main"} \cup subviews
          /\ window.size = PaintSize => (window' = window /\ ev'.marked = {})]_vars

\* A paint after a resize, with sub-views: all three views were marked.
C20_Witness ==
  /\ ev.op = "paint"
  /\ ev.drew # "null"
  /\ ev.marked = {"main", "sub1", "sub2"}
  /\ window.size = PaintSize
\* C21: a frame drawn by a paint callback is drawn through the focus view,
\* that is the focused sub-view if a sub-view has the focus and the primary
\* view otherwise, and the same view was given InvalidateImmediate().
C21_DrawTargetsFocusView ==
  (ev.op = "paint" /\ ev.drew # "null")
    => /\ ev.drew = (IF myFocusView \in subviews THEN myFocusView ELSE "main")
       /\ ev.invImm = ev.drew

\* A frame was drawn through the second sub-view, which had the focus.
C21_Witness ==
  /\ ev.op = "paint"
  /\ myFocusView = "sub2"
  /\ ev.invImm = "sub2"
  /\ ev.drew = "sub2"
\* C22: a paint callback requests a repaint exactly when it has drawn a
\* frame and the pending-frame flag is up after the redraw; with the flag
\* down, or without a draw, the paint path requests none.
C22_RepaintIffAskNextFrame ==
  ev.op = "paint"
    => /\ ev.updates = (IF ev.drew # "null" /\ ev.askNext THEN 1 ELSE 0)
       /\ ev.askNext => ev.drew # "null"

\* A frame was drawn with the pending-frame flag up: one repaint requested.
C22_Witness ==
  /\ ev.op = "paint"
  /\ ev.drew # "null"
  /\ ev.askNext
  /\ ev.updates = 1
\* C23: a pointer press, release or move, or a wheel event forwarded as a
\* zoom, requests one repaint when the renderer's entry point returned true
\* and none when it returned false.
C23_RepaintIffChanged ==
  (ev.op \in {"press", "release", "move"} \/ (ev.op = "wheel" /\ ev.fwd = "UpdateZoom"))
    => /\ ev.fwd \in {"UpdateMouseButtons", "UpdateMousePosition", "UpdateZoom"}
       /\ ev.updates = (IF ev.changed THEN 1 ELSE 0)

\* A pointer move the renderer reported as changing nothing: no repaint.
C23_Witness ==
  /\ ev.op = "move"
  /\ ev.fwd = "UpdateMousePosition"
  /\ ~ev.changed
  /\ ev.updates = 0

\* C24: in both variants the position handed to the renderer for a pointer
\* press, release, move or wheel event is the event's logical position times
\* the device-pixel ratio.
C24_PositionsScaled ==
  ev.op \in {"press", "release", "move", "wheel"}
    => ev.pos \in {<<p[1] * ratio, p[2] * ratio>> : p \in Positions}
\* C25: the primary view has no or exactly two sub-views, and the sub-view
\* composer is on exactly when it has them; a split with no sub-views makes
\* two and turns the composer on, a split with sub-views removes them all
\* and turns it off, and each requests one repaint.
C25_SplitToggles ==
  [][/\ Cardinality(subviews') \in {0, 2}
     /\ subviewComposer' = (subviews' # {})
     /\ ev'.op = "split"
          => /\ (subviews = {}) => (Cardinality(subviews') = 2 /\ subviewComposer')
             /\ (subviews # {}) => (subviews' = {} /\ ~subviewComposer')
             /\ ev'.updates = 1
     /\ ev'.op # "split" => UNCHANGED <<subviews, subviewComposer>>]_vars

\* The split action was invoked with sub-views present: none is left, the
\* composer is off and a repaint was requested.
C25_Witness ==
  /\ ev.op = "split"
  /\ ev.focusWas \in {"sub1", "sub2"}
  /\ subviews = {}
  /\ ~subviewComposer
  /\ ev.updates = 1
\* C26: right after an un-split the focus view is the primary view, and the
\* focus view is never a sub-view that was removed: a view other than the
\* primary one has the focus only while it is one of the sub-views.
C26_FocusNeverDangling ==
  /\ (ev.op = "split" /\ subviews = {}) => myFocusView = "main"
  /\ myFocusView \in {"sub1", "sub2"} => myFocusView \in subviews
  /\ myFocusView \in Views \cup {"null"}

\* An un-split has taken the focus from the second sub-view to the primary
\* view.
C26_Witness ==
  /\ ev.op = "split"
  /\ ev.focusWas = "sub2"
  /\ subviews = {}
  /\ myFocusView = "main"
\* C27: a key, pointer or wheel callback that comes while the primary view
\* has no window calls nothing of the view or of the renderer's input entry
\* points.
C27_NoInputBeforeSurface ==
  (ev.op \in {"key", "press", "release", "move", "wheel"} /\ ~window.exists)
    => ev.fwd = "none"

\* C28: only a paint callback composes a frame: after any other callback no
\* framebuffer was wrapped, no view was given InvalidateImmediate() and
\* FlushViewEvents() was not called; such a callback requests at most one
\* repaint.
C28_DrawOnlyInPaint ==
  ev.op # "paint"
    => /\ ~ev.wrapped
       /\ ev.invImm = "null"
       /\ ev.drew = "null"
       /\ ev.updates <= 1

\* The F key has fitted the view and requested a repaint without drawing.
C28_Witness ==
  /\ ev.op = "key"
  /\ ev.fwd = "FitAll"
  /\ ev.updates = 1
  /\ ev.drew = "null"
  /\ window.exists
\* C29: a paint callback that reruns initializeGL() for a changed handle
\* requests no repaint and, unless the rerun failed, leaves the window with
\* the toolkit's handle; the paint callback that comes next with the handle
\* unchanged does not rerun it again and draws a frame, unless the
\* framebuffer wrapper fails.
C29_OneSkippedFrame ==
  [][/\ (ev'.op = "paint" /\ ev'.reinit)
          => /\ ev'.updates = 0
             /\ ev'.drew = "null"
             /\ ~ev'.initFail => window'.handle = hostHandle
     /\ (ev.op = "paint" /\ ev.reinit /\ ~ev.initFail /\ ev'.op = "paint")
          => /\ ~ev'.reinit
             /\ ev'.fboFail \/ ev'.drew # "null"
             /\ ev'.drew # "null" => ev'.again]_vars

\* The QWidget variant has drawn a frame in the paint callback that came
\* right after the one that took up a changed handle.
C29_Witness ==
  /\ variant = "QW"
  /\ ev.op = "paint"
  /\ ev.again
  /\ ev.drew # "null"
  /\ nbSetWindow = 2
  /\ window.handle = hostHandle
====
